---- MODULE Spec2Model ----
(***************************************************************************)
(* Recurrence resolution of the calendar application.                      *)
(*                                                                         *)
(* shouldShowOnDate (utils/recurrence) decides whether an event, possibly  *)
(* recurring, appears on a target date.  The model keeps the text of a     *)
(* date apart from the calendar value it parses to: a date string is the   *)
(* record of what is written in it, parseISO turns it into a day number    *)
(* (or NaN when the text names no calendar date), and getDay, getDate and  *)
(* getMonth are computed back from the day number.                         *)
(***************************************************************************)
EXTENDS Integers, Sequences, FiniteSets, TLC

VARIABLES
    \* one call of shouldShowOnDate: its arguments, its return value, and
    \* the position of the caller
    event, targetDateStr, result, pc,
    \* the date appended to the event's exception_dates, and what the call
    \* returns for the event so extended
    added, resultAfter,
    \* the screens' derived data: the event collection of useEvents, the
    \* date of the render, the marks of the calendar modal (eventMarks) and
    \* the upcoming list of the summary screen (upcomingEvents)
    events, today, marks, upcoming,
    \* the calendar screen: the rows of the eventos table as useEvents last
    \* fetched them, the fecha and recurrence each row was created with, the
    \* last error of the hook, and the state of the screen (the two selected
    \* dates, the event form, the modals, the open alert and the button
    \* pressed in it, the pending setTimeout callback)
    eventos, created, error,
    selectedDate, modalSelectedDate,
    titulo, formRecurrence, editingEvent,
    modalVisible, calendarModalVisible,
    alert, pressed, timer,
    \* the times of the event form: the "Todo el dia" switch, the two text
    \* fields of the screen of index.tsx, the two picker values of the
    \* calendar screen, and the times last handed to addEvent or updateEvent
    esTodoDia, horaInicio, horaFin, fechaInicio, fechaFin, written,
    \* the day's list of a screen (dayEvents) and the dates of its week
    \* strip that carry the dot (hasEvent)
    dayList, dots,
    \* the per-day data: the rows of the todos and daily_wellness tables,
    \* the state of useTodos (todos, error) and of useWellness (wellness,
    \* error), the fetches of each hook that wait for their response, and
    \* the last call of toggleTodo with a bit that flips at each call
    todosTable, todos, todosError, wellnessTable, wellness, wellnessError,
    todoFlights, wellnessFlights, tick, lastToggle,
    \* the calls of upsertField between their lookup and their write, and
    \* the value of the last completed write of each field
    upserts, lastWrite,
    \* useEvents step by step: the rows of the eventos table, the loading
    \* flag, the requests that wait for their response, and how the last
    \* call ended
    table, loading, requests, lastDone

callVars == <<event, targetDateStr, result>>
addVars == <<added, resultAfter>>
batchVars == <<events, today, marks, upcoming>>

tableVars == <<eventos, created, error>>
formVars == <<titulo, formRecurrence, editingEvent>>
screenVars ==
    <<tableVars, selectedDate, modalSelectedDate, formVars, modalVisible,
      calendarModalVisible, alert, pressed, timer>>

timeVars == <<esTodoDia, horaInicio, horaFin, fechaInicio, fechaFin, written>>

\* the variables of the specifications that follow the calendar screen
dayVars == <<dayList, dots>>

todoVars == <<todosTable, todos, todosError, todoFlights, tick, lastToggle>>
wellnessVars ==
    <<wellnessTable, wellness, wellnessError, wellnessFlights, upserts,
      lastWrite>>
fetchVars == <<table, loading, requests, lastDone>>
hookVars == <<todoVars, wellnessVars, fetchVars>>

laterVars == <<timeVars, dayVars, hookVars>>

vars == <<callVars, pc, addVars, batchVars, screenVars, laterVars>>

(***************************************************************************)
(* Bounds of the checked input space.                                      *)
(***************************************************************************)
\* longest exception_dates array drawn for an event
MaxExc == 1

\* the calendar grid the date strings are written from; it holds the dates
\* the specification names (2023-12-31 .. 2028-02-29) and texts that are no
\* calendar date (02-29 of a common year, 02-31, 06-31)
Years == {2023, 2024, 2025, 2028}
MonthNumbers == {1, 2, 3, 6, 12}
DayNumbers == {1, 2, 8, 15, 28, 29, 31}

(***************************************************************************)
(* Strings.  k = "null": null or undefined; "empty": the string '';        *)
(* "text": a string that is not ISO 8601; "iso": the text YYYY-MM-DD with  *)
(* the digits y, m, d.  Two strings are === exactly when the records are   *)
(* equal.                                                                  *)
(***************************************************************************)
NullStr == [k |-> "null", y |-> 0, m |-> 0, d |-> 0]
EmptyStr == [k |-> "empty", y |-> 0, m |-> 0, d |-> 0]
GarbageStr == [k |-> "text", y |-> 0, m |-> 0, d |-> 0]
IsoStr(y, m, d) == [k |-> "iso", y |-> y, m |-> m, d |-> d]

\* JavaScript truthiness of a string-or-null value
Truthy(s) == s.k \notin {"null", "empty"}

(***************************************************************************)
(* Calendar arithmetic of Date and date-fns.  A valid Date is the number   *)
(* of days since 1970-01-01 of its local midnight; NaN is the invalid Date.*)
(***************************************************************************)
NaN == [valid |-> FALSE, days |-> 0]
DateOf(n) == [valid |-> TRUE, days |-> n]

isLeapYearIndex(y) == (y % 400 = 0) \/ ((y % 4 = 0) /\ (y % 100 # 0))

daysInMonth(y, m) ==
    IF m = 2 THEN (IF isLeapYearIndex(y) THEN 29 ELSE 28)
    ELSE IF m \in {4, 6, 9, 11} THEN 30 ELSE 31

validateDate(y, m, d) == m \in 1..12 /\ d >= 1 /\ d <= daysInMonth(y, m)

\* days since 1970-01-01 of the civil date y-m-d (proleptic Gregorian)
DaysFromCivil(y, m, d) ==
    LET yy == IF m <= 2 THEN y - 1 ELSE y
        era == yy \div 400
        yoe == yy - era * 400
        mp == IF m > 2 THEN m - 3 ELSE m + 9
        doy == (153 * mp + 2) \div 5 + d - 1
        doe == yoe * 365 + yoe \div 4 - yoe \div 100 + doy
    IN era * 146097 + doe - 719468

\* the civil date <<year, month, day>> of a day number
CivilFromDays(n) ==
    LET z == n + 719468
        era == z \div 146097
        doe == z - era * 146097
        yoe == (doe - doe \div 1460 + doe \div 36524 - doe \div 146096) \div 365
        doy == doe - (365 * yoe + yoe \div 4 - yoe \div 100)
        mp == (5 * doy + 2) \div 153
        d == doy - (153 * mp + 2) \div 5 + 1
        m == IF mp < 10 THEN mp + 3 ELSE mp - 9
        y == yoe + era * 400 + (IF m <= 2 THEN 1 ELSE 0)
    IN <<y, m, d>>

parseISO(s) ==
    IF s.k = "iso" /\ validateDate(s.y, s.m, s.d)
    THEN DateOf(DaysFromCivil(s.y, s.m, s.d))
    ELSE NaN

\* isNaN(date.getTime())
isNaN(date) == ~date.valid

\* 0 = Sunday .. 6 = Saturday; 1970-01-01 was a Thursday
getDay(date) == (date.days + 4) % 7

\* day of the month, 1..31
getDate(date) == CivilFromDays(date.days)[3]

\* month index, 0 = January .. 11 = December
getMonth(date) == CivilFromDays(date.days)[2] - 1

startOfWeek(date, weekStartsOn) ==
    LET day == getDay(date)
        diff == (IF day < weekStartsOn THEN 7 ELSE 0) + day - weekStartsOn
    IN DateOf(date.days - diff)

differenceInCalendarWeeks(dateLeft, dateRight, weekStartsOn) ==
    LET l == startOfWeek(dateLeft, weekStartsOn).days
        r == startOfWeek(dateRight, weekStartsOn).days
    IN (l - r) \div 7

\* the % operator of JavaScript: the sign of the result is the dividend's
JsRem(a, b) == IF a >= 0 THEN a % b ELSE -((-a) % b)

\* Array.prototype.includes on an array of strings
includes(arr, s) == \E i \in 1..Len(arr) : arr[i] = s

(***************************************************************************)
(* shouldShowOnDate, statement by statement.                               *)
(***************************************************************************)
\* exception_dates: null, or an array of date strings
NullDates == [isNull |-> TRUE, items |-> <<>>]
DatesArray(items) == [isNull |-> FALSE, items |-> items]

\* if (!event.fecha || !targetDateStr) return false;
MissingDates(ev, target) == ~Truthy(ev.fecha) \/ ~Truthy(target)

\* variant: the exception list is consulted for recurring occurrences only,
\* never for the origin date
IsExceptionAfterOrigin(ev, target) ==
    /\ ~ev.exception_dates.isNull
    /\ includes(ev.exception_dates.items, target)
    /\ ev.fecha # target

\* variant: looks the event's own fecha up in the list, not the target
IsExceptionOfOrigin(ev, target) ==
    ~ev.exception_dates.isNull /\ includes(ev.exception_dates.items, ev.fecha)

\* event.exception_dates && event.exception_dates.includes(targetDateStr)
IsException(ev, target) ==
    ~ev.exception_dates.isNull /\ includes(ev.exception_dates.items, target)

\* variant: no exact-match shortcut
ExactMatchDropped(ev, target) == FALSE

\* if (event.fecha === targetDateStr) return true;
ExactMatch(ev, target) == ev.fecha = target

\* variant: an absent recurrence defaults to 'daily'
RecurrenceOfDefaultDaily(ev) ==
    IF ev.recurrence = "null" THEN "daily" ELSE ev.recurrence

\* const recurrence = event.recurrence ?? 'none';
RecurrenceOf(ev) == IF ev.recurrence = "null" THEN "none" ELSE ev.recurrence

\* variant: the comparison is reversed
BeforeOriginReversed(target, origin) == target.days > origin.days

\* variant: the origin guard is missing
BeforeOriginDropped(target, origin) == FALSE

\* if (target < origin) return false;
BeforeOrigin(target, origin) == target.days < origin.days

\* variant: a daily event shows on its origin only
MatchesDailyNever(target, origin) == FALSE

MatchesDaily(target, origin) == TRUE

\* variant: compares the day of the month instead of the day of the week
MatchesWeeklyByDate(target, origin) == getDate(target) = getDate(origin)

MatchesWeekly(target, origin) == getDay(target) = getDay(origin)

\* variant: the day of the week is not compared
MatchesBiweeklyAnyDay(target, origin) ==
    JsRem(differenceInCalendarWeeks(target, origin, 1), 2) = 0

\* variant: the week parity is not tested
MatchesBiweeklyNoParity(target, origin) == getDay(target) = getDay(origin)

MatchesBiweekly(target, origin) ==
    IF getDay(target) # getDay(origin) THEN FALSE
    ELSE LET weeksDiff == differenceInCalendarWeeks(target, origin, 1)
         IN JsRem(weeksDiff, 2) = 0

\* variant: an origin day the target month lacks rolls over to its last day
MatchesMonthlyRollover(target, origin) ==
    LET c == CivilFromDays(target.days)
        last == daysInMonth(c[1], c[2])
    IN \/ getDate(target) = getDate(origin)
       \/ (getDate(origin) > last /\ getDate(target) = last)

MatchesMonthly(target, origin) == getDate(target) = getDate(origin)

\* variant: the month is not compared
MatchesYearlyNoMonth(target, origin) == getDate(target) = getDate(origin)

MatchesYearly(target, origin) ==
    getDate(target) = getDate(origin) /\ getMonth(target) = getMonth(origin)

\* the switch over the recurrence kind
MatchesPattern(recurrence, target, origin) ==
    CASE recurrence = "daily" -> MatchesDaily(target, origin)
      [] recurrence = "weekly" -> MatchesWeekly(target, origin)
      [] recurrence = "biweekly" -> MatchesBiweekly(target, origin)
      [] recurrence = "monthly" -> MatchesMonthly(target, origin)
      [] recurrence = "yearly" -> MatchesYearly(target, origin)
      [] OTHER -> FALSE

\* No statement of the try block throws on an Evento and a string, so the
\* catch clause (return false) is never entered and every call returns.
shouldShowOnDate(ev, target) ==
    IF MissingDates(ev, target) THEN FALSE
    ELSE IF IsException(ev, target) THEN FALSE
    ELSE IF ExactMatch(ev, target) THEN TRUE
    ELSE LET recurrence == RecurrenceOf(ev) IN
         IF recurrence = "none" THEN FALSE
         ELSE LET origin == parseISO(ev.fecha)
                  tgt == parseISO(target)
              IN IF isNaN(origin) \/ isNaN(tgt) THEN FALSE
                 ELSE IF BeforeOrigin(tgt, origin) THEN FALSE
                 ELSE MatchesPattern(recurrence, tgt, origin)

(***************************************************************************)
(* The inputs of a call.                                                   *)
(***************************************************************************)
DateStrs == {IsoStr(y, m, d) : y \in Years, m \in MonthNumbers, d \in DayNumbers}
BadStrs == {NullStr, EmptyStr, GarbageStr}

\* the recurrence column: absent (null), the six kinds, and an unknown value
Recurrences ==
    {"null", "none", "daily", "weekly", "biweekly", "monthly", "yearly", "hourly"}

\* a date that is never the target's own text unless the target is that date
OtherDate == IsoStr(2024, 1, 15)

SeqsUpTo(S, n) == UNION {[1..k -> S] : k \in 0..n}

\* exception lists over the target itself and one other date
ExceptionLists(target) ==
    {NullDates} \cup
      {DatesArray(items) : items \in SeqsUpTo({target, OtherDate} \ BadStrs, MaxExc)}

Evento(fecha, recurrence, exception_dates) ==
    [fecha |-> fecha, recurrence |-> recurrence, exception_dates |-> exception_dates]

\* the variables of the other specifications, at rest
AddIdle == added = NullStr /\ resultAfter = FALSE

NoUpcoming == [raised |-> FALSE, groups |-> <<>>]

BatchIdle ==
    events = <<>> /\ today = NullStr /\ marks = {} /\ upcoming = NoUpcoming

\* useState<Evento | null>(null)
NullEvento ==
    [id |-> 0, titulo |-> "", fecha |-> NullStr, recurrence |-> "null",
     exception_dates |-> NullDates]

NoAlert == [kind |-> "none", id |-> 0, exceptionDate |-> NullStr]

NoTimer == [kind |-> "none", evento |-> NullEvento]

\* the calendar screen at rest, but for its selected date
ScreenRestIdle ==
    /\ eventos = {} /\ created = <<>> /\ error = NullStr
    /\ modalSelectedDate = NullStr
    /\ titulo = "" /\ formRecurrence = "none" /\ editingEvent = NullEvento
    /\ modalVisible = FALSE /\ calendarModalVisible = FALSE
    /\ alert = NoAlert /\ pressed = "" /\ timer = NoTimer

ScreenIdle == selectedDate = NullStr /\ ScreenRestIdle

\* a string of the time fields, as its characters; null
Text(chars) == [isNull |-> FALSE, chars |-> chars]
NullText == [isNull |-> TRUE, chars |-> <<>>]

NoWrite == [es_todo_el_dia |-> TRUE, hora_inicio |-> Text(<<"-">>), hora_fin |-> Text(<<"-">>)]

TimesIdle ==
    /\ esTodoDia = TRUE /\ horaInicio = Text(<<>>) /\ horaFin = Text(<<>>)
    /\ fechaInicio = 0 /\ fechaFin = 0 /\ written = NoWrite

DayIdle == dayList = <<>> /\ dots = {}

NoWellness ==
    [id |-> 0, fecha |-> NullStr, agua_litros |-> 0, pasos |-> 0,
     horas_sueno |-> 0]

NoToggle == [id |-> 0, completadoActual |-> FALSE, ok |-> FALSE]

NoWrites == [agua_litros |-> 0, pasos |-> 0, horas_sueno |-> 0]

NoCall == [op |-> "none", ok |-> TRUE, promise |-> "none"]

TodosIdle ==
    /\ todosTable = {} /\ todos = {} /\ todosError = NullStr
    /\ todoFlights = {} /\ tick = FALSE /\ lastToggle = NoToggle

WellnessIdle ==
    /\ wellnessTable = {} /\ wellness = NoWellness /\ wellnessError = NullStr
    /\ wellnessFlights = {} /\ upserts = {} /\ lastWrite = NoWrites

FetchIdle ==
    table = {} /\ loading = FALSE /\ requests = {} /\ lastDone = NoCall

HooksIdle == TodosIdle /\ WellnessIdle /\ FetchIdle

LaterIdle == TimesIdle /\ DayIdle /\ HooksIdle

Init ==
    /\ targetDateStr \in DateStrs \cup BadStrs
    /\ \E fecha \in DateStrs \cup BadStrs, r \in Recurrences,
          x \in ExceptionLists(targetDateStr) :
            event = Evento(fecha, r, x)
    /\ result = FALSE
    /\ pc = "call"
    /\ AddIdle
    /\ BatchIdle
    /\ ScreenIdle
    /\ LaterIdle

\* one call of shouldShowOnDate(event, targetDateStr)
ShouldShow ==
    /\ pc = "call"
    /\ result' = shouldShowOnDate(event, targetDateStr)
    /\ pc' = "done"
    /\ UNCHANGED <<event, targetDateStr, addVars, batchVars, screenVars, laterVars>>

Next == ShouldShow

Spec == Init /\ [][Next]_vars

(***************************************************************************)
(* Growing the exception list.  addExceptionDate(id, date) of useEvents is *)
(* called by the calendar screen and appends one date to the event's       *)
(* exception_dates (a null list becomes a list of one).                    *)
(***************************************************************************)
WithException(ev, x) ==
    [ev EXCEPT !.exception_dates =
        DatesArray((IF @.isNull THEN <<>> ELSE @.items) \o <<x>>)]

\* the dates of two of the grid's years
AddDateStrs == {s \in DateStrs : s.y \in {2024, 2028}}

InitAdd ==
    /\ targetDateStr \in AddDateStrs \cup BadStrs
    /\ \E fecha \in AddDateStrs \cup BadStrs, r \in Recurrences,
          x \in ExceptionLists(targetDateStr) :
            /\ event = Evento(fecha, r, x)
            /\ added \in {s \in {targetDateStr, fecha, OtherDate} : Truthy(s)}
    /\ result = FALSE
    /\ resultAfter = FALSE
    /\ pc = "call"
    /\ BatchIdle
    /\ ScreenIdle
    /\ LaterIdle

\* the same call before and after `added` joins the event's exception_dates
ShouldShowBeforeAfter ==
    /\ pc = "call"
    /\ result' = shouldShowOnDate(event, targetDateStr)
    /\ resultAfter' = shouldShowOnDate(WithException(event, added), targetDateStr)
    /\ pc' = "done"
    /\ UNCHANGED <<event, targetDateStr, added, batchVars, screenVars, laterVars>>

NextAdd == ShouldShowBeforeAfter

SpecAdd == InitAdd /\ [][NextAdd]_vars

(***************************************************************************)
(* Dates and strings as the screens use them.                              *)
(***************************************************************************)
\* format(date, 'yyyy-MM-dd')
format(date) ==
    LET c == CivilFromDays(date.days) IN IsoStr(c[1], c[2], c[3])

addDays(date, amount) == DateOf(date.days + amount)

\* new Date(s + 'T00:00:00').  A text that is no ISO date gives the invalid
\* Date.  A day number the month lacks (2024-02-31) is left to the engine:
\* a lenient parser rolls it over into the next month, a strict one gives
\* the invalid Date.
newDate(s, lenient) ==
    IF s.k # "iso" THEN NaN
    ELSE IF validateDate(s.y, s.m, s.d) THEN DateOf(DaysFromCivil(s.y, s.m, s.d))
    ELSE IF lenient /\ s.m \in 1..12 /\ s.d \in 1..31
         THEN DateOf(DaysFromCivil(s.y, s.m, 1) + s.d - 1)
         ELSE NaN

isSameDay(dateLeft, dateRight) == dateLeft.days = dateRight.days

\* Order of strings: '' sorts first, the digits of a YYYY-MM-DD text sort
\* before the letters of any other text (GarbageStr stands for a text that
\* begins with a letter, such as 'abc').
TextRank(s) == IF s.k = "empty" THEN 0 ELSE IF s.k = "iso" THEN 1 ELSE 2

\* a.localeCompare(b) on two strings: -1, 0 or 1
localeCompare(a, b) ==
    IF TextRank(a) # TextRank(b) THEN (IF TextRank(a) < TextRank(b) THEN -1 ELSE 1)
    ELSE IF a.y # b.y THEN (IF a.y < b.y THEN -1 ELSE 1)
    ELSE IF a.m # b.m THEN (IF a.m < b.m THEN -1 ELSE 1)
    ELSE IF a.d # b.d THEN (IF a.d < b.d THEN -1 ELSE 1)
    ELSE 0

\* a > b of JavaScript, b a string: null is compared as the number 0 with
\* NaN and is never greater; two strings compare by their characters
GreaterThan(a, b) == a.k # "null" /\ localeCompare(a, b) = 1

\* hora_inicio: null, or the text HH:MM
NullHora == [k |-> "null", y |-> 0, m |-> 0, d |-> 0]
Hora(h, mi) == [k |-> "iso", y |-> 0, m |-> h, d |-> mi]

\* a.hora_inicio ?? ''
OrEmpty(s) == IF s.k = "null" THEN EmptyStr ELSE s

(***************************************************************************)
(* eventMarks of the calendar screen.                                      *)
(***************************************************************************)
RANGE_DAYS == 90

\* const rangeStart = addDays(today, -45);
rangeStart(now) == addDays(now, -45)

\* events.some((evt) => shouldShowOnDate(evt, dateStr))
hasEvent(evs, dateStr) ==
    \E i \in 1..Len(evs) : shouldShowOnDate(evs[i], dateStr)

\* variant: the loop runs to i <= RANGE_DAYS
rangeDatesInclusive(now) ==
    {format(addDays(rangeStart(now), i)) : i \in 0..RANGE_DAYS}

\* the dateStr of the loop: for (let i = 0; i < RANGE_DAYS; i++)
rangeDates(now) ==
    {format(addDays(rangeStart(now), i)) : i \in 0..(RANGE_DAYS - 1)}

\* the keys of the marks object; every entry is {marked: true, dotColor}
eventMarks(evs, now) == {dateStr \in rangeDates(now) : hasEvent(evs, dateStr)}

(***************************************************************************)
(* upcomingEvents of the summary screen.                                   *)
(***************************************************************************)
LOOK_AHEAD_DAYS == 30

Projected(evt, date) == [evt |-> evt, projectedDate |-> date]

\* variant: e.fecha >= today
IsFutureSingleOrToday(e, todayStr) ==
    RecurrenceOf(e) = "none" /\ e.fecha.k # "null" /\ localeCompare(e.fecha, todayStr) >= 0

\* (e.recurrence ?? 'none') === 'none' && e.fecha > today
IsFutureSingle(e, todayStr) ==
    RecurrenceOf(e) = "none" /\ GreaterThan(e.fecha, todayStr)

\* (e.recurrence ?? 'none') !== 'none'
IsRecurring(e) == RecurrenceOf(e) # "none"

\* Paso A: the single events of the future, each projected on its fecha
PasoA(evs, todayStr) ==
    LET singles == SelectSeq(evs, LAMBDA e : IsFutureSingle(e, todayStr))
    IN [i \in 1..Len(singles) |-> Projected(singles[i], singles[i].fecha)]

\* Paso B: for (let i = 1; i <= LOOK_AHEAD_DAYS; i++) every recurring event
\* is tested on today + i, day by day and, within a day, in the order of the
\* collection; entry j of `tested` is event (j - 1) % n + 1 on day
\* (j - 1) \div n + 1
PasoBFrom(recurringEvents, todayDate) ==
    LET n == Len(recurringEvents)
        tested == [j \in 1..(LOOK_AHEAD_DAYS * n) |->
                     Projected(recurringEvents[((j - 1) % n) + 1],
                               format(addDays(todayDate, ((j - 1) \div n) + 1)))]
    IN SelectSeq(tested, LAMBDA p : shouldShowOnDate(p.evt, p.projectedDate))

PasoB(evs, todayStr) ==
    LET recurringEvents == SelectSeq(evs, IsRecurring)
    IN IF Len(recurringEvents) > 0
       THEN PasoBFrom(recurringEvents, newDate(todayStr, FALSE))
       ELSE <<>>

\* variant: the comparator looks at the date only
compareProjectedDateOnly(a, b) == localeCompare(a.projectedDate, b.projectedDate)

\* the comparator of projectedEvents.sort
compareProjected(a, b) ==
    LET dateComp == localeCompare(a.projectedDate, b.projectedDate)
    IN IF dateComp # 0 THEN dateComp
       ELSE localeCompare(OrEmpty(a.evt.hora_inicio), OrEmpty(b.evt.hora_inicio))

\* Array.prototype.sort with compareProjected.  The sort is stable: element
\* i lands behind the elements the comparator puts before it and behind the
\* earlier elements the comparator ties it with.
sortProjected(seq) ==
    LET n == Len(seq)
        place == SubSeq([i \in 1..n |->
                    1 + Cardinality({j \in 1..n :
                          LET c == compareProjected(seq[j], seq[i])
                          IN c < 0 \/ (c = 0 /\ j < i)})], 1, n)
    IN SubSeq([k \in 1..n |-> seq[CHOOSE i \in 1..n : place[i] = k]], 1, n)

\* the label of a group: 'Mañana, d MMM' for tomorrow, else 'EEEE d MMM'
Label(d, now) ==
    [tomorrow |-> isSameDay(d, addDays(now, 1)), day |-> format(d)]

\* projectedEvents.forEach of the grouping step: entry i opens a group when
\* its date differs from currentDate ('' at first, then the date of entry
\* i - 1).  format throws a RangeError on the invalid Date of a new group,
\* a first entry dated '' finds no group to join, and either exception
\* leaves upcomingEvents.
groupProjected(sorted, now, lenient) ==
    LET n == Len(sorted)
        opens(i) ==
            sorted[i].projectedDate #
                (IF i = 1 THEN EmptyStr ELSE sorted[i - 1].projectedDate)
        starts == SelectSeq([i \in 1..n |-> i], opens)
        last(g) == IF g = Len(starts) THEN n ELSE starts[g + 1] - 1
        throws ==
            \/ n > 0 /\ ~opens(1)
            \/ \E g \in 1..Len(starts) :
                  isNaN(newDate(sorted[starts[g]].projectedDate, lenient))
    IN IF throws THEN [raised |-> TRUE, groups |-> <<>>]
       ELSE [raised |-> FALSE,
             groups |-> [g \in 1..Len(starts) |->
                 [date |-> sorted[starts[g]].projectedDate,
                  label |-> Label(newDate(sorted[starts[g]].projectedDate, lenient), now),
                  events |-> SubSeq(sorted, starts[g], last(g))]]]

upcomingEvents(evs, todayStr, lenient) ==
    LET projectedEvents == sortProjected(PasoA(evs, todayStr) \o PasoB(evs, todayStr))
    IN groupProjected(projectedEvents, newDate(todayStr, FALSE), lenient)

(***************************************************************************)
(* The collections the screens are rendered with.                          *)
(***************************************************************************)
\* most events of a collection
MaxEvents == 2

\* getTodayString() of the render: Saturday 2024-02-10.  The marks cover
\* 2023-12-27 .. 2024-03-25, the upcoming list 2024-02-11 .. 2024-03-11.
RenderDay == IsoStr(2024, 2, 10)

\* an exception list that names tomorrow and a Wednesday of the window
TwoExceptions == DatesArray(<<IsoStr(2024, 2, 11), IsoStr(2024, 2, 14)>>)

Row(fecha, recurrence, exception_dates, hora_inicio) ==
    [id |-> 0, fecha |-> fecha, recurrence |-> recurrence,
     exception_dates |-> exception_dates, hora_inicio |-> hora_inicio]

\* rows of the eventos table: single events of today, tomorrow and beyond the
\* lookahead window, daily and weekly events that begin before and inside the
\* windows, an unknown recurrence, and rows whose fecha is missing or names
\* no calendar date
SingleRows ==
    {Row(IsoStr(2024, 2, 10), "none", NullDates, NullHora),
     Row(IsoStr(2024, 2, 11), "none", NullDates, NullHora),
     Row(IsoStr(2024, 2, 11), "none", TwoExceptions, Hora(9, 0)),
     Row(IsoStr(2024, 2, 11), "null", NullDates, Hora(10, 30)),
     Row(IsoStr(2024, 3, 20), "none", NullDates, NullHora)}

RecurringRows ==
    {Row(IsoStr(2023, 12, 20), "daily", NullDates, NullHora),
     Row(IsoStr(2024, 2, 11), "daily", TwoExceptions, Hora(9, 0)),
     Row(IsoStr(2024, 2, 7), "weekly", NullDates, Hora(10, 30)),
     Row(IsoStr(2024, 2, 7), "weekly", TwoExceptions, NullHora),
     Row(IsoStr(2024, 2, 11), "hourly", NullDates, NullHora)}

MalformedRows ==
    {Row(GarbageStr, "none", NullDates, NullHora),
     Row(GarbageStr, "daily", NullDates, Hora(9, 0)),
     Row(IsoStr(2024, 2, 31), "null", NullDates, NullHora),
     Row(NullStr, "weekly", NullDates, NullHora)}

Rows == SingleRows \cup RecurringRows \cup MalformedRows

\* the rows of a collection carry distinct ids
Collections ==
    {[i \in 1..Len(rows) |-> [rows[i] EXCEPT !.id = i]] :
        rows \in SeqsUpTo(Rows, MaxEvents)}

InitBatch ==
    /\ events \in Collections
    /\ today = RenderDay
    /\ marks = {}
    /\ upcoming = NoUpcoming
    /\ pc = "render"
    /\ event = Evento(NullStr, "null", NullDates)
    /\ targetDateStr = NullStr
    /\ result = FALSE
    /\ AddIdle
    /\ ScreenIdle
    /\ LaterIdle

\* a render of the calendar screen: useMemo of eventMarks
EventMarksMemo ==
    /\ pc = "render"
    /\ marks' = eventMarks(events, newDate(today, FALSE))
    /\ pc' = "marks"
    /\ UNCHANGED <<callVars, addVars, events, today, upcoming, screenVars, laterVars>>

\* a render of the summary screen: useMemo of upcomingEvents
UpcomingEventsMemo ==
    /\ pc = "render"
    /\ \E lenient \in BOOLEAN :
          upcoming' = upcomingEvents(events, today, lenient)
    /\ pc' = "upcoming"
    /\ UNCHANGED <<callVars, addVars, events, today, marks, screenVars, laterVars>>

NextBatch == EventMarksMemo \/ UpcomingEventsMemo

SpecBatch == InitBatch /\ [][NextBatch]_vars

(***************************************************************************)
(* The calendar screen.  useEvents keeps the rows of the eventos table:    *)
(* every hook function sends one request and, when the request succeeds,   *)
(* fetches the table again, so the screen's events are the table's rows;   *)
(* a failed request leaves them as they were and sets error.  The rows are *)
(* kept as a set: the order of the fetch plays no part in what the         *)
(* handlers do.  The screen is the native one, where Alert.alert shows the *)
(* buttons and runs the handler of the one pressed.                        *)
(***************************************************************************)
\* err.message of a failed request
Message == GarbageStr

Stored(id, fecha, recurrence, exception_dates) ==
    [id |-> id, titulo |-> "Cita", fecha |-> fecha, recurrence |-> recurrence,
     exception_dates |-> exception_dates]

\* Monday 2024-02-05 (getTodayString() when the screen is mounted) and the
\* Monday of the next week: the days that can be pressed
ScreenToday == IsoStr(2024, 2, 5)
ScreenDates == {ScreenToday, IsoStr(2024, 2, 12)}

\* what is typed in the title field: blanks, or a title
Titulos == {" ", "Cita"}

\* the chips of RECURRENCE_OPTIONS that are pressed
RecurrenceChips == {"none", "weekly"}

\* the tables the screen is mounted on
InitialTables ==
    {{},
     {Stored(1, ScreenToday, "weekly", NullDates)},
     {Stored(1, ScreenToday, "daily", DatesArray(<<IsoStr(2024, 2, 6)>>)),
      Stored(2, IsoStr(2024, 2, 12), "none", NullDates)}}

trim(s) == IF s = " " THEN "" ELSE s

\* the insert of addEvent names neither recurrence nor exception_dates: the
\* new row holds no value for them
addEvent(params) ==
    \E ok \in BOOLEAN :
        IF ok
        THEN LET id == Cardinality(DOMAIN created) + 1
                 default == "null"
             IN  /\ eventos' = eventos \cup
                        {[id |-> id, titulo |-> params.titulo,
                          fecha |-> params.fecha, recurrence |-> default,
                          exception_dates |-> NullDates]}
                 /\ created' = [i \in 1..id |->
                        IF i = id
                        THEN [fecha |-> params.fecha, recurrence |-> default]
                        ELSE created[i]]
                 /\ error' = NullStr
        ELSE error' = Message /\ UNCHANGED <<eventos, created>>

updateEvent(evento) ==
    \E ok \in BOOLEAN :
        /\ IF ok
           THEN /\ eventos' = {IF e.id = evento.id
                               THEN [e EXCEPT !.titulo = evento.titulo,
                                              !.fecha = evento.fecha]
                               ELSE e : e \in eventos}
                /\ error' = NullStr
           ELSE error' = Message /\ UNCHANGED eventos
        /\ UNCHANGED created

deleteEvent(id) ==
    \E ok \in BOOLEAN :
        /\ IF ok
           THEN /\ eventos' = {e \in eventos : e.id # id}
                /\ error' = NullStr
           ELSE error' = Message /\ UNCHANGED eventos
        /\ UNCHANGED created

\* addExceptionDate(id, date): the row's exception_dates grows by the date
addExceptionDate(id, date) ==
    \E ok \in BOOLEAN :
        /\ IF ok
           THEN /\ eventos' = {IF e.id = id THEN WithException(e, date) ELSE e :
                                  e \in eventos}
                /\ error' = NullStr
           ELSE error' = Message /\ UNCHANGED eventos
        /\ UNCHANGED created

dayEvents == {e \in eventos : shouldShowOnDate(e, selectedDate)}

modalDateEvents == {e \in eventos : shouldShowOnDate(e, modalSelectedDate)}

\* what is on top and takes the presses: the screen, the calendar modal,
\* the event modal.  No press lands in the 300 ms between the closing of
\* the calendar modal and the callback of its setTimeout.
Idle == alert = NoAlert /\ timer = NoTimer
OnScreen == ~modalVisible /\ ~calendarModalVisible /\ Idle
InCalendarModal == calendarModalVisible /\ ~modalVisible /\ Idle
InEventModal == modalVisible /\ Idle

otherVars == <<callVars, pc, addVars, batchVars, laterVars>>

InitScreen ==
    /\ eventos \in InitialTables
    /\ created = [i \in 1..Cardinality(eventos) |->
                    LET e == CHOOSE r \in eventos : r.id = i
                    IN  [fecha |-> e.fecha, recurrence |-> e.recurrence]]
    /\ error = NullStr
    /\ selectedDate = ScreenToday
    /\ modalSelectedDate = ScreenToday
    /\ titulo = ""
    /\ formRecurrence = "none"
    /\ editingEvent = NullEvento
    /\ modalVisible = FALSE
    /\ calendarModalVisible = FALSE
    /\ alert = NoAlert
    /\ pressed = ""
    /\ timer = NoTimer
    /\ pc = "screen"
    /\ event = Evento(NullStr, "null", NullDates)
    /\ targetDateStr = NullStr
    /\ result = FALSE
    /\ AddIdle
    /\ BatchIdle
    /\ LaterIdle

\* a press on a day of the week strip
handleWeekDayPress ==
    /\ OnScreen
    /\ \E dateStr \in ScreenDates :
          selectedDate' = format(newDate(dateStr, FALSE))
    /\ UNCHANGED <<tableVars, modalSelectedDate, formVars, modalVisible,
                   calendarModalVisible, alert, pressed, timer, otherVars>>

\* '+ Agendar' opens the calendar modal on the selected date
openCalendarModal ==
    /\ OnScreen
    /\ modalSelectedDate' = selectedDate
    /\ calendarModalVisible' = TRUE
    /\ UNCHANGED <<tableVars, selectedDate, formVars, modalVisible, alert,
                   pressed, timer, otherVars>>

handleCalendarDayPress ==
    /\ InCalendarModal
    /\ \E dateString \in ScreenDates : modalSelectedDate' = dateString
    /\ UNCHANGED <<tableVars, selectedDate, formVars, modalVisible,
                   calendarModalVisible, alert, pressed, timer, otherVars>>

\* Cancelar, or the back button, of the calendar modal
closeCalendarModal ==
    /\ InCalendarModal
    /\ calendarModalVisible' = FALSE
    /\ UNCHANGED <<tableVars, selectedDate, modalSelectedDate, formVars,
                   modalVisible, alert, pressed, timer, otherVars>>

confirmCalendarSelection ==
    /\ InCalendarModal
    /\ selectedDate' = modalSelectedDate
    /\ calendarModalVisible' = FALSE
    /\ timer' = [kind |-> "create", evento |-> NullEvento]
    /\ UNCHANGED <<tableVars, modalSelectedDate, formVars, modalVisible,
                   alert, pressed, otherVars>>

resetEventModal ==
    /\ titulo' = ""
    /\ formRecurrence' = "none"
    /\ editingEvent' = NullEvento

handleEdit(evento) ==
    /\ editingEvent' = evento
    /\ titulo' = evento.titulo
    /\ formRecurrence' = RecurrenceOf(evento)
    /\ modalVisible' = TRUE

\* the pencil of a row of the day's list
handleEditPress ==
    /\ OnScreen
    /\ \E evento \in dayEvents : handleEdit(evento)
    /\ UNCHANGED <<tableVars, selectedDate, modalSelectedDate,
                   calendarModalVisible, alert, pressed, timer, otherVars>>

handleEditFromModal ==
    /\ InCalendarModal
    /\ calendarModalVisible' = FALSE
    /\ \E evt \in modalDateEvents : timer' = [kind |-> "edit", evento |-> evt]
    /\ UNCHANGED <<tableVars, selectedDate, modalSelectedDate, formVars,
                   modalVisible, alert, pressed, otherVars>>

\* the callback of a setTimeout runs
Timeout ==
    /\ timer # NoTimer
    /\ IF timer.kind = "create"
       THEN resetEventModal /\ modalVisible' = TRUE
       ELSE handleEdit(timer.evento)
    /\ timer' = NoTimer
    /\ UNCHANGED <<tableVars, selectedDate, modalSelectedDate,
                   calendarModalVisible, alert, pressed, otherVars>>

setTitulo ==
    /\ InEventModal
    /\ \E text \in Titulos : titulo' = text
    /\ UNCHANGED <<tableVars, selectedDate, modalSelectedDate, formRecurrence,
                   editingEvent, modalVisible, calendarModalVisible, alert,
                   pressed, timer, otherVars>>

setRecurrence ==
    /\ InEventModal
    /\ \E value \in RecurrenceChips : formRecurrence' = value
    /\ UNCHANGED <<tableVars, selectedDate, modalSelectedDate, titulo,
                   editingEvent, modalVisible, calendarModalVisible, alert,
                   pressed, timer, otherVars>>

handleSave ==
    /\ InEventModal
    /\ editingEvent # NullEvento \/ Cardinality(DOMAIN created) < MaxEvents
    /\ IF trim(titulo) = ""
       THEN UNCHANGED <<tableVars, formVars, modalVisible>>
       ELSE LET fechaStr == selectedDate
            IN  /\ IF editingEvent # NullEvento
                   THEN updateEvent(
                            [id |-> editingEvent.id,
                             titulo |-> trim(titulo),
                             fecha |-> fechaStr,
                             recurrence |-> formRecurrence,
                             exception_dates |-> editingEvent.exception_dates])
                   ELSE addEvent(
                            [titulo |-> trim(titulo),
                             fecha |-> fechaStr,
                             recurrence |-> formRecurrence])
                /\ modalVisible' = FALSE
                /\ resetEventModal
    /\ UNCHANGED <<selectedDate, modalSelectedDate, calendarModalVisible,
                   alert, pressed, timer, otherVars>>

handleCancelEvent ==
    /\ InEventModal
    /\ modalVisible' = FALSE
    /\ resetEventModal
    /\ UNCHANGED <<tableVars, selectedDate, modalSelectedDate,
                   calendarModalVisible, alert, pressed, timer, otherVars>>

isRecurring(evento) == RecurrenceOf(evento) # "none"

\* dateContext || selectedDate
exceptionDateSelected(dateContext) == selectedDate
exceptionDate(dateContext) ==
    IF Truthy(dateContext) THEN dateContext ELSE selectedDate

handleDelete(evento, dateContext) ==
    alert' = IF ~isRecurring(evento)
             THEN [kind |-> "simple", id |-> evento.id, exceptionDate |-> NullStr]
             ELSE [kind |-> "recurring", id |-> evento.id,
                   exceptionDate |-> exceptionDate(dateContext)]

\* the bin of a row of the day's list
handleDeletePress ==
    /\ OnScreen
    /\ \E evento \in dayEvents : handleDelete(evento, NullStr)
    /\ UNCHANGED <<tableVars, selectedDate, modalSelectedDate, formVars,
                   modalVisible, calendarModalVisible, pressed, timer,
                   otherVars>>

handleDeleteFromModal ==
    /\ InCalendarModal
    /\ \E evento \in modalDateEvents : handleDelete(evento, modalSelectedDate)
    /\ UNCHANGED <<tableVars, selectedDate, modalSelectedDate, formVars,
                   modalVisible, calendarModalVisible, pressed, timer,
                   otherVars>>

\* the buttons of the alert (the accent of 'Solo este dia' is dropped)
Buttons(kind) ==
    IF kind = "simple"
    THEN {"Cancelar", "Eliminar"}
    ELSE {"Cancelar", "Solo este dia", "Todos los futuros"}

\* a button of the open alert is pressed: its onPress runs
alertPress ==
    /\ alert # NoAlert
    /\ \E text \in Buttons(alert.kind) :
          /\ pressed' = text
          /\ \/ text = "Cancelar" /\ UNCHANGED tableVars
             \/ text = "Solo este dia"
                  /\ addExceptionDate(alert.id, alert.exceptionDate)
             \/ text \in {"Eliminar", "Todos los futuros"}
                  /\ deleteEvent(alert.id)
    /\ alert' = NoAlert
    /\ UNCHANGED <<selectedDate, modalSelectedDate, formVars, modalVisible,
                   calendarModalVisible, timer, otherVars>>

NextScreen ==
    \/ handleWeekDayPress
    \/ openCalendarModal
    \/ handleCalendarDayPress
    \/ closeCalendarModal
    \/ confirmCalendarSelection
    \/ handleEditPress
    \/ handleEditFromModal
    \/ Timeout
    \/ setTitulo
    \/ setRecurrence
    \/ handleSave
    \/ handleCancelEvent
    \/ handleDeletePress
    \/ handleDeleteFromModal
    \/ alertPress

SpecScreen == InitScreen /\ [][NextScreen]_vars

(***************************************************************************)
(* The times of the event form.  The screen of index.tsx takes them as     *)
(* text and validates the text on save; the calendar screen takes them     *)
(* from two time pickers and keeps the end after the start.  A Date of the *)
(* pickers is its minutes since 00:00 of the selected day.  pc names the   *)
(* screen in use; a title has been typed, so handleSave goes past its      *)
(* first guard.                                                            *)
(***************************************************************************)
MinutesPerHour == 60
MinutesPerDay == 24 * MinutesPerHour

Digits == <<"0", "1", "2", "3", "4", "5", "6", "7", "8", "9">>

\* the UTF-16 code unit of a character of the time fields
CharCode(c) ==
    IF c = ":" THEN 58
    ELSE 48 + (CHOOSE n \in 0..9 : Digits[n + 1] = c)

\* /^([01]\d|2[0-3]):[0-5]\d$/.test(value)
isValidTime(value) ==
    LET c == value.chars
        digit(x) == \E n \in 1..10 : Digits[n] = x
    IN  /\ Len(c) = 5
        /\ \/ c[1] \in {"0", "1"} /\ digit(c[2])
           \/ c[1] = "2" /\ c[2] \in {"0", "1", "2", "3"}
        /\ c[3] = ":"
        /\ c[4] \in {"0", "1", "2", "3", "4", "5"}
        /\ digit(c[5])

\* a >= b on two strings: the order of the first code unit that differs,
\* a prefix before the longer string
StringGreaterEq(a, b) ==
    LET n == IF Len(a.chars) < Len(b.chars) THEN Len(a.chars) ELSE Len(b.chars)
        differ == {i \in 1..n : a.chars[i] # b.chars[i]}
    IN  IF differ = {} THEN Len(a.chars) >= Len(b.chars)
        ELSE LET i == CHOOSE j \in differ : \A k \in differ : j <= k
             IN  CharCode(a.chars[i]) > CharCode(b.chars[i])

\* format(date, 'HH:mm')
formatHHmm(date) ==
    LET h == (date % MinutesPerDay) \div MinutesPerHour
        mi == date % MinutesPerHour
    IN  Text(<<Digits[(h \div 10) + 1], Digits[(h % 10) + 1], ":",
               Digits[(mi \div 10) + 1], Digits[(mi % 10) + 1]>>)

addHours(date, amount) == date + amount * MinutesPerHour

\* buildDateAtHour(selectedDate, hour)
buildDateAtHour(hour) == hour * MinutesPerHour

\* what is typed in a time field (maxLength 5)
TimeTexts ==
    {Text(<<>>), Text(<<"9", ":", "3", "0">>), Text(<<"0", "9", ":", "3", "0">>),
     Text(<<"1", "0", ":", "0", "0">>), Text(<<"2", "3", ":", "5", "9">>),
     Text(<<"2", "4", ":", "0", "0">>), Text(<<"0", "8", ":", "6", "0">>)}

\* the times of day chosen in a picker: 00:30, 09:00, 10:00, 23:30
PickedTimes == {30, 540, 600, 1410}

\* the Date a time picker hands over: the day of its value, the chosen time
Picked(value, time) == (value \div MinutesPerDay) * MinutesPerDay + time

besidesTimes ==
    <<callVars, pc, addVars, batchVars, screenVars, dayVars, hookVars>>

InitTimes ==
    /\ pc \in {"index", "calendar"}
    /\ esTodoDia = TRUE
    /\ horaInicio = Text(<<>>)
    /\ horaFin = Text(<<>>)
    /\ fechaInicio = buildDateAtHour(9)
    /\ fechaFin = buildDateAtHour(10)
    /\ written = NoWrite
    /\ event = Evento(NullStr, "null", NullDates)
    /\ targetDateStr = NullStr
    /\ result = FALSE
    /\ AddIdle
    /\ BatchIdle
    /\ ScreenIdle
    /\ DayIdle
    /\ HooksIdle

\* the switch "Todo el dia" of either screen
setEsTodoDia ==
    /\ esTodoDia' = ~esTodoDia
    /\ UNCHANGED <<horaInicio, horaFin, fechaInicio, fechaFin, written, besidesTimes>>

setHoraInicio ==
    /\ pc = "index"
    /\ \E text \in TimeTexts : horaInicio' = text
    /\ UNCHANGED <<esTodoDia, horaFin, fechaInicio, fechaFin, written, besidesTimes>>

setHoraFin ==
    /\ pc = "index"
    /\ \E text \in TimeTexts : horaFin' = text
    /\ UNCHANGED <<esTodoDia, horaInicio, fechaInicio, fechaFin, written, besidesTimes>>

\* handleSave of index.tsx; an alert and a return leave the form as it is
handleSaveText ==
    /\ pc = "index"
    /\ IF ~esTodoDia /\ (~isValidTime(horaInicio) \/ ~isValidTime(horaFin))
       THEN UNCHANGED timeVars
       ELSE IF ~esTodoDia /\ StringGreaterEq(horaInicio, horaFin)
       THEN UNCHANGED timeVars
       ELSE /\ written' = [es_todo_el_dia |-> esTodoDia,
                           hora_inicio |-> IF esTodoDia THEN NullText ELSE horaInicio,
                           hora_fin |-> IF esTodoDia THEN NullText ELSE horaFin]
            /\ esTodoDia' = TRUE
            /\ horaInicio' = Text(<<>>)
            /\ horaFin' = Text(<<>>)
            /\ UNCHANGED <<fechaInicio, fechaFin>>
    /\ UNCHANGED besidesTimes

handleStartDateChange(date) ==
    /\ fechaInicio' = date
    /\ fechaFin' = IF date >= fechaFin THEN addHours(date, 1) ELSE fechaFin

handleEndDateChange(date) ==
    /\ fechaFin' = IF date <= fechaInicio THEN addHours(fechaInicio, 1) ELSE date
    /\ UNCHANGED fechaInicio

\* the start picker changes; a dismissed picker hands over no date
startPicker ==
    /\ pc = "calendar"
    /\ ~esTodoDia
    /\ \/ UNCHANGED <<fechaInicio, fechaFin>>
       \/ \E time \in PickedTimes : handleStartDateChange(Picked(fechaInicio, time))
    /\ UNCHANGED <<esTodoDia, horaInicio, horaFin, written, besidesTimes>>

endPicker ==
    /\ pc = "calendar"
    /\ ~esTodoDia
    /\ \/ UNCHANGED <<fechaInicio, fechaFin>>
       \/ \E time \in PickedTimes : handleEndDateChange(Picked(fechaFin, time))
    /\ UNCHANGED <<esTodoDia, horaInicio, horaFin, written, besidesTimes>>

\* handleSave of the calendar screen, and the resetEventModal that ends it
handleSavePickers ==
    /\ pc = "calendar"
    /\ LET horaInicioStr == formatHHmm(fechaInicio)
           horaFinStr == formatHHmm(fechaFin)
       IN  written' = [es_todo_el_dia |-> esTodoDia,
                       hora_inicio |-> IF esTodoDia THEN NullText ELSE horaInicioStr,
                       hora_fin |-> IF esTodoDia THEN NullText ELSE horaFinStr]
    /\ esTodoDia' = TRUE
    /\ fechaInicio' = buildDateAtHour(9)
    /\ fechaFin' = buildDateAtHour(10)
    /\ UNCHANGED <<horaInicio, horaFin, besidesTimes>>

NextTimes ==
    \/ setEsTodoDia
    \/ setHoraInicio
    \/ setHoraFin
    \/ handleSaveText
    \/ startPicker
    \/ endPicker
    \/ handleSavePickers

SpecTimes == InitTimes /\ [][NextTimes]_vars

(***************************************************************************)
(* The day's list and the week strip.  The calendar screen (and the        *)
(* summary screen, for today) filters the events with shouldShowOnDate;    *)
(* the screen of index.tsx filters them by fecha and reads the dots of the *)
(* strip off markedDates.                                                  *)
(***************************************************************************)
DayRow(fecha, recurrence, exception_dates, es_todo_el_dia, hora_inicio) ==
    [id |-> 0, fecha |-> fecha, recurrence |-> recurrence,
     exception_dates |-> exception_dates, es_todo_el_dia |-> es_todo_el_dia,
     hora_inicio |-> hora_inicio]

\* events of Monday 2024-02-05, all-day and timed, a weekly event of the
\* Monday before, and a daily event that skips the Tuesday
DayRows ==
    {DayRow(ScreenToday, "none", NullDates, TRUE, NullHora),
     DayRow(ScreenToday, "none", NullDates, FALSE, Hora(9, 0)),
     DayRow(ScreenToday, "null", NullDates, FALSE, Hora(10, 30)),
     DayRow(ScreenToday, "none", NullDates, FALSE, NullHora),
     DayRow(IsoStr(2024, 1, 29), "weekly", NullDates, FALSE, Hora(8, 0)),
     DayRow(IsoStr(2024, 2, 1), "daily", DatesArray(<<IsoStr(2024, 2, 6)>>),
            TRUE, NullHora)}

DayCollections ==
    {[i \in 1..Len(rows) |-> [rows[i] EXCEPT !.id = i]] :
        rows \in SeqsUpTo(DayRows, MaxEvents)}

\* the days that are selected: the Monday and the Tuesday of the strip, and
\* the Monday of the next week
SelectedDays == {ScreenToday, IsoStr(2024, 2, 6), IsoStr(2024, 2, 12)}

\* variant: the all-day flag is not compared
compareDayByStart(a, b) ==
    localeCompare(OrEmpty(a.hora_inicio), OrEmpty(b.hora_inicio))

\* the comparator of dayEvents and todayEvents
compareDay(a, b) ==
    IF a.es_todo_el_dia /\ ~b.es_todo_el_dia THEN 1
    ELSE IF ~a.es_todo_el_dia /\ b.es_todo_el_dia THEN -1
    ELSE localeCompare(OrEmpty(a.hora_inicio), OrEmpty(b.hora_inicio))

\* Array.prototype.sort with compareDay (stable)
sortDay(seq) ==
    LET n == Len(seq)
        place == SubSeq([i \in 1..n |->
                    1 + Cardinality({j \in 1..n :
                          LET c == compareDay(seq[j], seq[i])
                          IN c < 0 \/ (c = 0 /\ j < i)})], 1, n)
    IN SubSeq([k \in 1..n |-> seq[CHOOSE i \in 1..n : place[i] = k]], 1, n)

\* dayEvents of the calendar screen: events.filter(...).sort(...)
dayEventsList(evs, date) ==
    sortDay(SelectSeq(evs, LAMBDA e : shouldShowOnDate(e, date)))

\* dayEvents of index.tsx
dayEventsByFecha(evs, date) ==
    sortDay(SelectSeq(evs, LAMBDA e : e.fecha = date))

\* getWeekDays(currentWeekStart), the strip of the week of 2024-02-05
getWeekDays(startDate) ==
    LET start == startOfWeek(startDate, 1)
    IN  [i \in 1..7 |-> addDays(start, i - 1)]

currentWeekStart == startOfWeek(newDate(ScreenToday, FALSE), 1)

\* the keys of markedDates of index.tsx: the fecha of every event, and the
\* selected date
markedDates(evs, selected) ==
    {evs[i].fecha : i \in 1..Len(evs)} \cup
        (IF Truthy(selected) THEN {selected} ELSE {})

\* the dateStr of the week strip whose hasEvent is true
stripDots(evs) ==
    {format(getWeekDays(currentWeekStart)[i]) : i \in
        {j \in 1..7 : hasEvent(evs, format(getWeekDays(currentWeekStart)[j]))}}

stripDotsIndex(evs, selected) ==
    {format(getWeekDays(currentWeekStart)[i]) : i \in
        {j \in 1..7 : format(getWeekDays(currentWeekStart)[j])
                          \in markedDates(evs, selected)}}

besidesDay ==
    <<callVars, addVars, today, marks, upcoming, tableVars, modalSelectedDate,
      formVars, modalVisible, calendarModalVisible, alert, pressed, timer,
      timeVars, hookVars>>

InitDay ==
    /\ events \in DayCollections
    /\ selectedDate \in SelectedDays
    /\ dayList = <<>>
    /\ dots = {}
    /\ pc = "render"
    /\ today = NullStr /\ marks = {} /\ upcoming = NoUpcoming
    /\ event = Evento(NullStr, "null", NullDates)
    /\ targetDateStr = NullStr
    /\ result = FALSE
    /\ AddIdle
    /\ ScreenRestIdle
    /\ TimesIdle
    /\ HooksIdle

\* a render of the calendar screen
renderCalendar ==
    /\ pc = "render"
    /\ dayList' = dayEventsList(events, selectedDate)
    /\ dots' = stripDots(events)
    /\ pc' = "calendar"
    /\ UNCHANGED <<events, selectedDate, besidesDay>>

\* a render of the screen of index.tsx
renderIndex ==
    /\ pc = "render"
    /\ dayList' = dayEventsByFecha(events, selectedDate)
    /\ dots' = stripDotsIndex(events, selectedDate)
    /\ pc' = "index"
    /\ UNCHANGED <<events, selectedDate, besidesDay>>

\* a day is selected (handleWeekDayPress, confirmCalendarSelection) and the
\* screen is to be rendered again
selectDay ==
    /\ pc # "render"
    /\ \E dateStr \in SelectedDays \ {selectedDate} : selectedDate' = dateStr
    /\ pc' = "render"
    /\ UNCHANGED <<events, dayVars, besidesDay>>

NextDay == renderCalendar \/ renderIndex \/ selectDay

SpecDay == InitDay /\ [][NextDay]_vars


(***************************************************************************)
(* The calendar as the properties speak of it, computed apart from the     *)
(* Date arithmetic above: a date's ordinal counts days from 0001-01-01     *)
(* (day 1, a Monday).                                                      *)
(***************************************************************************)
DaysBeforeMonth == <<0, 31, 59, 90, 120, 151, 181, 212, 243, 273, 304, 334>>

LeapYear(y) == y % 4 = 0 /\ (y % 100 # 0 \/ y % 400 = 0)

Ordinal(y, m, d) ==
    365 * (y - 1) + (y - 1) \div 4 - (y - 1) \div 100 + (y - 1) \div 400
      + DaysBeforeMonth[m] + (IF m > 2 /\ LeapYear(y) THEN 1 ELSE 0) + d

MonthLength(y, m) ==
    IF m = 12 THEN 31 ELSE Ordinal(y, m + 1, 1) - Ordinal(y, m, 1)

\* the string is the text of a calendar date
IsCalendarDate(s) ==
    s.k = "iso" /\ s.m \in 1..12 /\ s.d \in 1..MonthLength(s.y, s.m)

OrdinalOf(s) == Ordinal(s.y, s.m, s.d)

\* 0 = Sunday .. 6 = Saturday
Weekday(s) == OrdinalOf(s) % 7

\* calendar order of two dates, read off their text
DateBefore(a, b) ==
    \/ a.y < b.y
    \/ a.y = b.y /\ a.m < b.m
    \/ a.y = b.y /\ a.m = b.m /\ a.d < b.d

\* the Monday that starts the week of a date
MondayOf(s) == OrdinalOf(s) - ((Weekday(s) + 6) % 7)

\* Monday-starting calendar weeks from a to b
WeeksBetween(a, b) == (MondayOf(b) - MondayOf(a)) \div 7

NonRecurring(ev) == ev.recurrence \in {"null", "none"}

Listed(ev, s) ==
    ~ev.exception_dates.isNull
      /\ \E i \in DOMAIN ev.exception_dates.items : ev.exception_dates.items[i] = s

Done == pc = "done"

\* both dates are calendar dates, the recurrence is r, the call has returned
Returned(r) ==
    Done /\ event.recurrence = r /\ IsCalendarDate(event.fecha)
         /\ IsCalendarDate(targetDateStr)

\* the target is after the origin and is no exception date
AfterOrigin == DateBefore(event.fecha, targetDateStr) /\ ~Listed(event, targetDateStr)

(***************************************************************************)
(* Properties of shouldShowOnDate.                                         *)
(***************************************************************************)

C3_OnlyOrigin ==
    (Done /\ NonRecurring(event) /\ targetDateStr # event.fecha) => result = FALSE

C3_Witness ==
    /\ Done
    /\ event.recurrence = "null"
    /\ IsCalendarDate(event.fecha)
    /\ IsCalendarDate(targetDateStr)
    /\ DateBefore(event.fecha, targetDateStr)
    /\ ~Listed(event, targetDateStr)
    /\ result = FALSE

\* C4: shouldShowOnDate returns false for every call in which the event's
\* fecha or the target string is missing or is no parsable calendar date,
\* for every recurrence kind and every exception list.
C4_FailsClosed ==
    (Done /\ (~IsCalendarDate(event.fecha) \/ ~IsCalendarDate(targetDateStr)))
        => result = FALSE

\* C5: a daily event shows on every target on or after the origin that is no
\* exception date, and on no target before the origin.
C5_Daily ==
    Returned("daily") =>
        /\ (~DateBefore(targetDateStr, event.fecha) /\ ~Listed(event, targetDateStr))
              => result = TRUE
        /\ DateBefore(targetDateStr, event.fecha) => result = FALSE

C5_Witness ==
    /\ Returned("daily")
    /\ event.fecha = IsoStr(2024, 1, 1)
    /\ targetDateStr = IsoStr(2024, 6, 15)
    /\ ~Listed(event, targetDateStr)
    /\ result = TRUE

\* C6: a weekly event shows on a target after the origin that is no exception
\* date if and only if target and origin fall on the same day of the week.
C6_Weekly ==
    (Returned("weekly") /\ AfterOrigin) =>
        (result = TRUE <=> Weekday(targetDateStr) = Weekday(event.fecha))

C6_Witness ==
    /\ Returned("weekly")
    /\ AfterOrigin
    /\ event.fecha = IsoStr(2024, 1, 1)
    /\ Weekday(event.fecha) = 1
    /\ targetDateStr = IsoStr(2024, 1, 8)
    /\ result = TRUE

\* C7: a biweekly event shows on a target after the origin that is no
\* exception date if and only if target and origin fall on the same day of
\* the week and an even number of Monday-starting calendar weeks lies between
\* them.
C7_Biweekly ==
    (Returned("biweekly") /\ AfterOrigin) =>
        (result = TRUE <=>
            /\ Weekday(targetDateStr) = Weekday(event.fecha)
            /\ WeeksBetween(event.fecha, targetDateStr) % 2 = 0)

C7_Witness ==
    /\ Returned("biweekly")
    /\ AfterOrigin
    /\ event.fecha = IsoStr(2024, 1, 1)
    /\ targetDateStr = IsoStr(2024, 1, 8)
    /\ WeeksBetween(event.fecha, targetDateStr) = 1
    /\ result = FALSE

\* C8: a monthly event shows on a target after the origin that is no exception
\* date if and only if the days of the month are equal; there is no rollover,
\* so an origin on day 31 shows in no month of 30 or fewer days.
C8_Monthly ==
    (Returned("monthly") /\ AfterOrigin) =>
        /\ result = TRUE <=> targetDateStr.d = event.fecha.d
        /\ (event.fecha.d = 31 /\ MonthLength(targetDateStr.y, targetDateStr.m) <= 30)
              => result = FALSE

C8_Witness ==
    /\ Returned("monthly")
    /\ AfterOrigin
    /\ event.fecha = IsoStr(2024, 1, 31)
    /\ targetDateStr = IsoStr(2024, 2, 29)
    /\ result = FALSE

\* C9: a yearly event shows on a target after the origin that is no exception
\* date if and only if day of the month and month are both equal; an origin
\* on 29 February shows in leap years only.
C9_Yearly ==
    (Returned("yearly") /\ AfterOrigin) =>
        /\ result = TRUE <=>
              (targetDateStr.d = event.fecha.d /\ targetDateStr.m = event.fecha.m)
        /\ (event.fecha.m = 2 /\ event.fecha.d = 29 /\ ~LeapYear(targetDateStr.y))
              => result = FALSE

C9_Witness ==
    /\ Returned("yearly")
    /\ AfterOrigin
    /\ event.fecha = IsoStr(2024, 2, 29)
    /\ targetDateStr = IsoStr(2028, 2, 29)
    /\ result = TRUE

\* C10: for every event, every recurrence kind (unknown values included) and
\* every target date strictly before the origin date, shouldShowOnDate is
\* false.
C10_NothingBeforeOrigin ==
    (/\ Done
     /\ IsCalendarDate(event.fecha)
     /\ IsCalendarDate(targetDateStr)
     /\ DateBefore(targetDateStr, event.fecha)) => result = FALSE

C10_Witness ==
    /\ Done
    /\ event.recurrence = "weekly"
    /\ event.fecha = IsoStr(2024, 1, 8)
    /\ targetDateStr = IsoStr(2024, 1, 1)
    /\ ~Listed(event, targetDateStr)
    /\ result = FALSE

\* C11: exception dates only suppress.  Adding a date x to an event's
\* exception_dates never turns shouldShowOnDate(e, d) from false to true, and
\* leaves it unchanged for every d other than x.
C11_OnlySuppress ==
    Done =>
        /\ resultAfter = TRUE => result = TRUE
        /\ targetDateStr # added => resultAfter = result

C11_Witness ==
    /\ Done
    /\ event.recurrence = "weekly"
    /\ event.fecha = IsoStr(2024, 1, 1)
    /\ targetDateStr = IsoStr(2024, 1, 8)
    /\ event.exception_dates = DatesArray(<<OtherDate>>)
    /\ added = targetDateStr
    /\ result = TRUE
    /\ resultAfter = FALSE

(***************************************************************************)
(* Properties of eventMarks and upcomingEvents.                            *)
(***************************************************************************)
\* the calendar dates from 2023-12-01 to 2024-04-30, which hold both windows
NearDates ==
    {s \in {IsoStr(y, m, d) : y \in {2023, 2024}, m \in {1, 2, 3, 4, 12}, d \in 1..31} :
        IsCalendarDate(s) /\ (s.y = 2023 <=> s.m = 12)}

\* d is one of the 90 consecutive dates that start 45 days before today
InMarksWindow(d) ==
    /\ OrdinalOf(d) >= OrdinalOf(today) - 45
    /\ OrdinalOf(d) < OrdinalOf(today) - 45 + 90

EventsOf(evs) == {evs[i] : i \in 1..Len(evs)}

MarksRendered == pc = "marks"

\* a date is marked exactly when it lies in the window and some event of the
\* collection shows on it
MarkedIffShown ==
    /\ marks \subseteq NearDates
    /\ \A d \in NearDates :
          d \in marks <=>
            (InMarksWindow(d) /\ \E e \in EventsOf(events) : shouldShowOnDate(e, d))

UpcomingRendered == pc = "upcoming"

Groups == {upcoming.groups[g] : g \in 1..Len(upcoming.groups)}

\* the date i days after today
DaysAhead(i) == CHOOSE d \in NearDates : OrdinalOf(d) = OrdinalOf(today) + i

\* d is after today and at most 30 days after today
InLookahead(d) ==
    /\ IsCalendarDate(d)
    /\ OrdinalOf(d) > OrdinalOf(today)
    /\ OrdinalOf(d) <= OrdinalOf(today) + 30

\* how many entries of group g are the event with this id
TimesIn(g, id) == Cardinality({k \in 1..Len(g.events) : g.events[k].evt.id = id})

\* C13, as stated: every group of upcomingEvents has a date d with
\* today < d <= today + 30 days.  It is read over the groups dated with a
\* calendar date.
C13_Original ==
    UpcomingRendered =>
        \A g \in Groups : IsCalendarDate(g.date) => InLookahead(g.date)

\* C13, amended: every group has a date after today, and every group that
\* holds an occurrence of a recurring event has a date d with
\* today < d <= today + 30 days; only non-recurring events appear beyond the
\* lookahead window.
C13_AfterToday ==
    UpcomingRendered =>
        \A g \in Groups :
            /\ DateBefore(today, g.date)
            /\ (\E k \in 1..Len(g.events) : ~NonRecurring(g.events[k].evt))
                  => InLookahead(g.date)

C13_Witness ==
    /\ UpcomingRendered
    /\ ~upcoming.raised
    /\ \E g \in Groups :
          /\ g.date = IsoStr(2024, 3, 20)
          /\ \A k \in 1..Len(g.events) : NonRecurring(g.events[k].evt)
    /\ \E g \in Groups :
          /\ g.date = IsoStr(2024, 3, 11)
          /\ \E k \in 1..Len(g.events) : g.events[k].evt.recurrence = "daily"
    /\ \A g \in Groups : g.date # today

\* C14: every non-recurring event whose fecha is strictly after today
\* appears exactly once in the output of upcomingEvents, in the group dated
\* with its fecha; a non-recurring event whose fecha is today or earlier does
\* not appear at all.
C14_SinglesOnce ==
    UpcomingRendered =>
        \A e \in EventsOf(events) :
            (NonRecurring(e) /\ IsCalendarDate(e.fecha)) =>
                /\ \A g \in Groups :
                      TimesIn(g, e.id) =
                          (IF DateBefore(today, e.fecha) /\ g.date = e.fecha THEN 1 ELSE 0)
                /\ DateBefore(today, e.fecha) => \E g \in Groups : g.date = e.fecha

\* C15: for every recurring event e and every offset i in 1..30, e appears in
\* the group dated today + i if and only if shouldShowOnDate(e, today + i)
\* is true, and at most once in a group.
C15_RecurringProjected ==
    UpcomingRendered =>
        \A e \in EventsOf(events) :
            ~NonRecurring(e) =>
                /\ \A g \in Groups : TimesIn(g, e.id) <= 1
                /\ \A i \in 1..30 :
                      shouldShowOnDate(e, DaysAhead(i)) <=>
                          \E g \in Groups : g.date = DaysAhead(i) /\ TimesIn(g, e.id) = 1

\* the start time as the order reads it: a missing time is the empty string,
\* which precedes every HH:MM
StartKey(e) == IF e.hora_inicio.k = "null" THEN -1 ELSE 60 * e.hora_inicio.m + e.hora_inicio.d

\* C16: the groups of upcomingEvents are in strictly ascending order of date,
\* each group is non-empty and holds only events projected on its date, and
\* within a group the events ascend by hora_inicio, an event without a start
\* time preceding every timed event.
C16_Ordered ==
    UpcomingRendered =>
        /\ \A g \in 1..(Len(upcoming.groups) - 1) :
              DateBefore(upcoming.groups[g].date, upcoming.groups[g + 1].date)
        /\ \A g \in Groups :
              /\ Len(g.events) >= 1
              /\ \A k \in 1..Len(g.events) : g.events[k].projectedDate = g.date
              /\ \A k \in 1..(Len(g.events) - 1) :
                    StartKey(g.events[k].evt) <= StartKey(g.events[k + 1].evt)

C16_Witness ==
    /\ UpcomingRendered
    /\ Len(upcoming.groups) >= 2
    /\ upcoming.groups[1].date = IsoStr(2024, 2, 11)
    /\ Len(upcoming.groups[1].events) = 2
    /\ upcoming.groups[1].events[1].evt.id = 2
    /\ upcoming.groups[1].events[1].evt.hora_inicio = NullHora
    /\ upcoming.groups[1].events[2].evt.id = 1
    /\ upcoming.groups[1].events[2].evt.hora_inicio = Hora(10, 30)

\* C17: no group of upcomingEvents dated d holds an event that lists d in its
\* exception_dates, be the event recurring or not.
C17_NeverOnException ==
    UpcomingRendered =>
        \A g \in Groups :
            \A k \in 1..Len(g.events) : ~Listed(g.events[k].evt, g.date)

\* the collection without its malformed events
WellFormed(evs) == SelectSeq(evs, LAMBDA e : IsCalendarDate(e.fecha))

\* C18: eventMarks and upcomingEvents complete without raising and return,
\* for a collection that holds events with a missing or unparsable fecha,
\* exactly what they return for the collection without those events.
C18_MalformedIgnored ==
    /\ MarksRendered => marks = eventMarks(WellFormed(events), newDate(today, FALSE))
    /\ UpcomingRendered =>
          /\ ~upcoming.raised
          /\ upcoming = upcomingEvents(WellFormed(events), today, FALSE)

(***************************************************************************)
(* The lifecycle of an event on the calendar screen.                       *)
(***************************************************************************)
\* C19: whatever is done on the calendar screen, every row of the table
\* keeps the fecha and the recurrence it was created with.
C19_FixedAtCreation ==
    \A e \in eventos :
        /\ e.id \in DOMAIN created
        /\ e.fecha = created[e.id].fecha
        /\ e.recurrence = created[e.id].recurrence

\* the rows other than the one of an id
Others(rows, id) == {e \in rows : e.id # id}

\* the date an occurrence is deleted on: the date of the calendar modal when
\* the modal is open, the selected date otherwise
DeletedOn == IF calendarModalVisible THEN modalSelectedDate ELSE selectedDate

\* C20: a press on a button of the delete alert does what the lifecycle says.
\* 'Cancelar' leaves the table as it is.  'Solo este dia', offered for a
\* recurring event only, appends exactly one date to that event's
\* exception_dates (the calendar modal's date when deleting from the modal,
\* the selected date otherwise) and keeps the event's other fields and every
\* other row.  'Todos los futuros', and 'Eliminar' offered for a
\* non-recurring event only, remove the event's row and no other.  (A request
\* the backend rejects sets error and leaves the table as it is.)
C20_DeleteLifecycle ==
    [][(alert # NoAlert /\ alert' = NoAlert) =>
          \E row \in eventos :
              /\ row.id = alert.id
              /\ Others(eventos', row.id) = Others(eventos, row.id)
              /\ (alert.kind = "recurring") = ~NonRecurring(row)
              /\ pressed' \in
                    IF NonRecurring(row)
                    THEN {"Cancelar", "Eliminar"}
                    ELSE {"Cancelar", "Solo este dia", "Todos los futuros"}
              /\ pressed' = "Cancelar" => eventos' = eventos /\ error' = error
              /\ error' # NullStr => eventos' = eventos
              /\ (pressed' \in {"Eliminar", "Todos los futuros"} /\ error' = NullStr)
                    => eventos' = Others(eventos, row.id)
              /\ (pressed' = "Solo este dia" /\ error' = NullStr)
                    => \E new \in eventos' :
                          /\ Cardinality(eventos') = Cardinality(eventos)
                          /\ [new EXCEPT !.exception_dates = row.exception_dates] = row
                          /\ ~new.exception_dates.isNull
                          /\ new.exception_dates.items =
                                (IF row.exception_dates.isNull THEN <<>>
                                 ELSE row.exception_dates.items) \o <<DeletedOn>>
    ]_vars

\* one occurrence has been deleted from the calendar modal, on a date other
\* than the selected one
C20_Witness ==
    /\ pressed = "Solo este dia"
    /\ error = NullStr
    /\ alert = NoAlert
    /\ calendarModalVisible
    /\ modalSelectedDate # selectedDate
    /\ \E e \in eventos :
          /\ ~NonRecurring(e)
          /\ Listed(e, modalSelectedDate)
          /\ ~Listed(e, selectedDate)

(***************************************************************************)
(* Relations between the recurrence kinds.                                 *)
(***************************************************************************)
\* calendar days from the event's origin to the target
DaysFromOrigin == OrdinalOf(targetDateStr) - OrdinalOf(event.fecha)

\* C26: for a biweekly event with valid dates and a target that is no
\* exception date, shouldShowOnDate returns true if and only if the number of
\* calendar days from the origin to the target is a non-negative multiple of
\* 14: the Monday-week-parity rule is a plain day count.
C26_DayCount ==
    (Returned("biweekly") /\ ~Listed(event, targetDateStr)) =>
        (result = TRUE <=> (DaysFromOrigin >= 0 /\ DaysFromOrigin % 14 = 0))

\* a biweekly event shown four weeks after its origin, in another month
C26_Witness ==
    /\ Returned("biweekly")
    /\ ~Listed(event, targetDateStr)
    /\ event.fecha.m # targetDateStr.m
    /\ DaysFromOrigin = 28
    /\ result = TRUE

\* what the call returns for the same origin, exception list and target when
\* the event's recurrence is r
Shows(r) == shouldShowOnDate([event EXCEPT !.recurrence = r], targetDateStr)

\* C27: for the same origin, exception list and target, a biweekly occurrence
\* is a weekly one, a weekly occurrence a daily one, a yearly occurrence a
\* monthly one, a monthly occurrence a daily one, and an occurrence of the
\* non-recurring event is an occurrence under every recurrence kind.
C27_Nested ==
    Done =>
        LET daily == Shows("daily")
            weekly == Shows("weekly")
            biweekly == Shows("biweekly")
            monthly == Shows("monthly")
            yearly == Shows("yearly")
            single == Shows("none") \/ Shows("null")
        IN  /\ result = Shows(event.recurrence)
            /\ biweekly => weekly
            /\ weekly => daily
            /\ yearly => monthly
            /\ monthly => daily
            /\ single => (daily /\ weekly /\ biweekly /\ monthly /\ yearly)

\* a weekly occurrence, after the origin, that is no biweekly one
C27_Witness ==
    /\ Returned("weekly")
    /\ AfterOrigin
    /\ result = TRUE
    /\ Shows("daily")
    /\ ~Shows("biweekly")

(***************************************************************************)
(* The times written by the event form.                                    *)
(***************************************************************************)
DigitOf(c) == CHOOSE n \in 0..9 : Digits[n + 1] = c

IsDigit(c) == \E n \in 0..9 : Digits[n + 1] = c

\* the text is HH:MM, and the minutes after midnight it names
MinutesOf(t) ==
    (10 * DigitOf(t.chars[1]) + DigitOf(t.chars[2])) * 60
        + 10 * DigitOf(t.chars[4]) + DigitOf(t.chars[5])

IsHHMM(t) ==
    /\ ~t.isNull
    /\ Len(t.chars) = 5
    /\ t.chars[3] = ":"
    /\ \A i \in {1, 2, 4, 5} : IsDigit(t.chars[i])
    /\ 10 * DigitOf(t.chars[1]) + DigitOf(t.chars[2]) <= 23
    /\ 10 * DigitOf(t.chars[4]) + DigitOf(t.chars[5]) <= 59

\* C21: every event written by handleSave with es_todo_el_dia = false has
\* hora_inicio and hora_fin that are 24-hour HH:MM strings with hora_inicio
\* strictly before hora_fin, whatever text or picker edits came before; an
\* all-day event is written with both times null.
C21_ValidTimes ==
    written # NoWrite =>
        IF written.es_todo_el_dia
        THEN written.hora_inicio = NullText /\ written.hora_fin = NullText
        ELSE /\ IsHHMM(written.hora_inicio)
             /\ IsHHMM(written.hora_fin)
             /\ MinutesOf(written.hora_inicio) < MinutesOf(written.hora_fin)

(***************************************************************************)
(* The day's list and the dots of the week strip.                          *)
(***************************************************************************)
\* the ids of the events of the collection that show on a date
ShownOn(d) ==
    {events[i].id : i \in {j \in 1..Len(events) : shouldShowOnDate(events[j], d)}}

CalendarRendered == pc = "calendar"

\* C22: dayEvents holds exactly the events e with shouldShowOnDate(e,
\* selectedDate), each once; no all-day event comes before a timed one, and
\* the timed events ascend by hora_inicio (one without a start time first).
C22_DayEvents ==
    CalendarRendered =>
        /\ {dayList[k].id : k \in 1..Len(dayList)} = ShownOn(selectedDate)
        /\ Len(dayList) = Cardinality(ShownOn(selectedDate))
        /\ \A k \in 1..Len(dayList) : dayList[k] = events[dayList[k].id]
        /\ \A k \in 1..(Len(dayList) - 1) :
              /\ dayList[k].es_todo_el_dia => dayList[k + 1].es_todo_el_dia
              /\ (~dayList[k].es_todo_el_dia /\ ~dayList[k + 1].es_todo_el_dia)
                    => StartKey(dayList[k]) <= StartKey(dayList[k + 1])

\* an all-day event stored first is listed after the timed event
C22_Witness ==
    /\ CalendarRendered
    /\ Len(dayList) = 2
    /\ events[1].es_todo_el_dia
    /\ dayList[1].id = 2
    /\ ~dayList[1].es_todo_el_dia
    /\ dayList[2].id = 1

\* the dateStr of the seven days of the strip
StripDates == {IsoStr(2024, 2, d) : d \in 5..11}

\* C23: on either screen, a date of the week strip carries the dot if and
\* only if at least one event falls on it, whatever date is selected.
C23_DotIffEvent ==
    pc \in {"calendar", "index"} =>
        \A d \in StripDates : (d \in dots) <=> (ShownOn(d) # {})
(***************************************************************************)
(* The per-day data of the calendar screen: useTodos (the version of       *)
(* useTodos.ts with allTodos) and the fetch of useWellness, driven by the  *)
(* effect of the screen that fetches both for selectedDate.  A fetch is    *)
(* two steps, the request and its response; the rows of a response are     *)
(* the ones the table held when the request was made, and responses arrive *)
(* in any order.  The insert and the updates are one step each: the row is *)
(* written and the call goes on when the response arrives.  allTodos and   *)
(* the loading flags of the two hooks play no part here and are left out.  *)
(***************************************************************************)
MaxRows == 2
MaxFlights == 1

Todo(id, title, completado, fecha) ==
    [id |-> id, titulo |-> title, completado |-> completado, fecha |-> fecha]

Wellness(id, fecha, agua_litros, pasos, horas_sueno) ==
    [id |-> id, fecha |-> fecha, agua_litros |-> agua_litros, pasos |-> pasos,
     horas_sueno |-> horas_sueno]

NextMonday == IsoStr(2024, 2, 12)

\* the todos table the screen is mounted on: a pending todo of each day
InitialTodos ==
    {Todo(1, "Leer", FALSE, ScreenToday), Todo(2, "Leer", FALSE, NextMonday)}

\* the daily_wellness table the screen is mounted on: a record of today
InitialWellness == {Wellness(1, ScreenToday, 2, 0, 0)}

\* select('*').eq('fecha', fecha).eq('completado', false)
pendientes(rows, fecha) == {t \in rows : t.fecha = fecha /\ ~t.completado}

\* select('*').eq('fecha', fecha).maybeSingle(), data ?? null
recordOf(rows, fecha) ==
    IF \E w \in rows : w.fecha = fecha
    THEN CHOOSE w \in rows : w.fecha = fecha
    ELSE NoWellness

\* fetchTodos(fecha) up to its await: the error is cleared and the request
\* leaves, to be answered with the rows of the table rows
fetchTodos(rows, fecha) ==
    /\ todosError' = NullStr
    /\ todoFlights' =
           todoFlights \cup {[fecha |-> fecha, data |-> pendientes(rows, fecha)]}

\* fetchWellness(fecha) up to its await
fetchWellness(fecha) ==
    /\ wellnessError' = NullStr
    /\ wellnessFlights' =
           wellnessFlights \cup
               {[fecha |-> fecha, data |-> recordOf(wellnessTable, fecha)]}

besidesDayData ==
    <<callVars, pc, addVars, batchVars, tableVars, modalSelectedDate, formVars,
      modalVisible, calendarModalVisible, alert, pressed, timer, timeVars,
      dayVars, upserts, lastWrite, fetchVars>>

\* the screen is mounted on today and its effect has made the two fetches
InitDayData ==
    /\ event = Evento(NullStr, "null", NullDates)
    /\ targetDateStr = NullStr
    /\ result = FALSE
    /\ pc = "calendar"
    /\ AddIdle
    /\ BatchIdle
    /\ ScreenRestIdle
    /\ TimesIdle
    /\ DayIdle
    /\ FetchIdle
    /\ selectedDate = ScreenToday
    /\ todosTable = InitialTodos
    /\ todos = {}
    /\ todosError = NullStr
    /\ todoFlights =
           {[fecha |-> ScreenToday, data |-> pendientes(InitialTodos, ScreenToday)]}
    /\ tick = FALSE
    /\ lastToggle = NoToggle
    /\ wellnessTable = InitialWellness
    /\ wellness = NoWellness
    /\ wellnessError = NullStr
    /\ wellnessFlights =
           {[fecha |-> ScreenToday,
             data |-> recordOf(InitialWellness, ScreenToday)]}
    /\ upserts = {}
    /\ lastWrite = NoWrites

\* a day of the week strip is pressed, or the screen gets the focus again:
\* the effect runs fetchTodos and fetchWellness for the selected date
focusEffect(d) ==
    /\ selectedDate' = d
    /\ fetchTodos(todosTable, d)
    /\ fetchWellness(d)
    /\ UNCHANGED <<todosTable, todos, tick, lastToggle, wellnessTable, wellness>>
    /\ UNCHANGED besidesDayData

\* the response of a fetchTodos request arrives
todosResponse(f) ==
    /\ f \in todoFlights
    /\ todoFlights' = todoFlights \ {f}
    /\ \E ok \in BOOLEAN :
           IF ok
           THEN todos' = f.data /\ UNCHANGED todosError
           ELSE todosError' = Message /\ UNCHANGED todos
    /\ UNCHANGED <<todosTable, tick, lastToggle, wellnessTable, wellness,
                   wellnessError, wellnessFlights, selectedDate>>
    /\ UNCHANGED besidesDayData

\* the response of a fetchWellness request arrives
wellnessResponse(f) ==
    /\ f \in wellnessFlights
    /\ wellnessFlights' = wellnessFlights \ {f}
    /\ \E ok \in BOOLEAN :
           IF ok
           THEN wellness' = f.data /\ UNCHANGED wellnessError
           ELSE wellnessError' = Message /\ UNCHANGED wellness
    /\ UNCHANGED <<todoVars, wellnessTable, selectedDate>>
    /\ UNCHANGED besidesDayData

\* addTodo(titulo, fecha) with the title typed, from handleSaveTodo with the selected date
addTodo(title, fecha) ==
    /\ Cardinality(todosTable) < MaxRows
    /\ Cardinality(todoFlights) < MaxFlights
    /\ \E ok \in BOOLEAN :
           IF ok
           THEN LET rows == todosTable \cup
                        {Todo(Cardinality(todosTable) + 1, title, FALSE, fecha)}
                IN  /\ todosTable' = rows
                    /\ fetchTodos(rows, fecha)
           ELSE /\ todosError' = Message
                /\ UNCHANGED <<todosTable, todoFlights>>
    /\ UNCHANGED <<todos, tick, lastToggle, wellnessTable, wellness,
                   wellnessError, wellnessFlights, selectedDate>>
    /\ UNCHANGED besidesDayData

\* the pending list after a toggle that the table accepted
toggledKept(prev, id, completadoActual) == prev

toggled(prev, id, completadoActual) ==
    IF ~completadoActual THEN {t \in prev : t.id # id} ELSE prev

\* toggleTodo(id, completadoActual)
toggleTodo(id, completadoActual) ==
    /\ tick' = ~tick
    /\ \E ok \in BOOLEAN :
           /\ lastToggle' =
                  [id |-> id, completadoActual |-> completadoActual, ok |-> ok]
           /\ IF ok
              THEN /\ todosTable' =
                          {IF t.id = id
                           THEN [t EXCEPT !.completado = ~completadoActual]
                           ELSE t : t \in todosTable}
                   /\ todos' = toggled(todos, id, completadoActual)
                   /\ todosError' = NullStr
              ELSE /\ todosError' = Message
                   /\ UNCHANGED <<todosTable, todos>>
    /\ UNCHANGED <<todoFlights, wellnessTable, wellness, wellnessError,
                   wellnessFlights, selectedDate>>
    /\ UNCHANGED besidesDayData

\* updateTodo(id, nuevoTitulo), from handleSaveTodo with the todo edited
updateTodo(id, nuevoTitulo) ==
    /\ \E ok \in BOOLEAN :
           IF ok
           THEN /\ todosTable' =
                       {IF t.id = id THEN [t EXCEPT !.titulo = nuevoTitulo]
                        ELSE t : t \in todosTable}
                /\ todos' =
                       {IF t.id = id THEN [t EXCEPT !.titulo = nuevoTitulo]
                        ELSE t : t \in todos}
                /\ todosError' = NullStr
           ELSE /\ todosError' = Message
                /\ UNCHANGED <<todosTable, todos>>
    /\ UNCHANGED <<todoFlights, tick, lastToggle, wellnessTable, wellness,
                   wellnessError, wellnessFlights, selectedDate>>
    /\ UNCHANGED besidesDayData

NextDayData ==
    \/ \E d \in ScreenDates : focusEffect(d)
    \/ \E f \in todoFlights : todosResponse(f)
    \/ \E f \in wellnessFlights : wellnessResponse(f)

SpecDayData == InitDayData /\ [][NextDayData]_vars

\* useTodos alone, on the todos of today and with today selected: its four
\* functions called in any order
InitTodos ==
    /\ event = Evento(NullStr, "null", NullDates)
    /\ targetDateStr = NullStr
    /\ result = FALSE
    /\ pc = "calendar"
    /\ AddIdle
    /\ BatchIdle
    /\ ScreenRestIdle
    /\ TimesIdle
    /\ DayIdle
    /\ FetchIdle
    /\ WellnessIdle
    /\ selectedDate = ScreenToday
    /\ todosTable = pendientes(InitialTodos, ScreenToday)
    /\ todos = {}
    /\ todosError = NullStr
    /\ todoFlights = {}
    /\ tick = FALSE
    /\ lastToggle = NoToggle

\* a call of fetchTodos(fecha)
fetchTodosCall(fecha) ==
    /\ Cardinality(todoFlights) < MaxFlights
    /\ fetchTodos(todosTable, fecha)
    /\ UNCHANGED <<todosTable, todos, tick, lastToggle, wellnessTable, wellness,
                   wellnessError, wellnessFlights, selectedDate>>
    /\ UNCHANGED besidesDayData

NextTodos ==
    \/ fetchTodosCall(selectedDate)
    \/ \E f \in todoFlights : todosResponse(f)
    \/ addTodo("Correr", selectedDate)
    \/ \E t \in todos \cup todosTable : toggleTodo(t.id, t.completado)
    \/ \E t \in todos : updateTodo(t.id, "Correr")

SpecTodos == InitTodos /\ [][NextTodos]_vars

\* C24: the pending list of useTodos only holds todos whose completado is
\* false, whatever calls were made and however they ended; a toggleTodo on
\* a pending todo that the table accepted takes exactly that todo out of the
\* list, and a toggleTodo that failed leaves the list as it was and sets the
\* error.
C24_PendingOnly ==
    /\ [](\A t \in todos : ~t.completado)
    /\ [][tick' # tick =>
            LET c == lastToggle'
            IN  /\ (c.ok /\ ~c.completadoActual) =>
                       todos' = {t \in todos : t.id # c.id}
                /\ ~c.ok => (todos' = todos /\ todosError' # NullStr)]_vars

\* a pending todo of the list was toggled and left it, the other stayed
C24_Witness ==
    /\ lastToggle = [id |-> 1, completadoActual |-> FALSE, ok |-> TRUE]
    /\ \E t \in todosTable : t.id = 1 /\ t.completado
    /\ \A t \in todos : t.id # 1
    /\ todos # {}

\* C30: when every request has been answered and none has failed, todos and
\* wellness hold the data of the selected day and none of another day.
C30_SelectedDayData ==
    (todoFlights = {} /\ wellnessFlights = {}
        /\ todosError = NullStr /\ wellnessError = NullStr) =>
        /\ \A t \in todos : t.fecha = selectedDate
        /\ wellness = NoWellness \/ wellness.fecha = selectedDate
(***************************************************************************)
(* upsertField of useWellness, for the selected day.  A call is two        *)
(* requests, the lookup of the day's record and then the update or the     *)
(* insert, and the calls in flight take their steps in any order.  Each    *)
(* request is accepted or rejected by the table; nothing in the repository *)
(* declares a constraint on fecha, so an insert the table accepts adds a   *)
(* row whatever rows it holds.                                             *)
(***************************************************************************)
MaxUpserts == 2

WellnessFields == {"agua_litros", "pasos"}

\* the values of the slider that are saved
SliderValues == {1, 2}

\* data of select('id').eq('fecha', fecha).maybeSingle(), whose error is not
\* read: the id of the one row of the date, nothing when there is none, when
\* there are several, or when the request fails
existingOf(rows, fecha, ok) ==
    LET found == {w \in rows : w.fecha = fecha}
    IN  IF ok /\ Cardinality(found) = 1
        THEN (CHOOSE w \in found : TRUE).id
        ELSE 0

besidesWellness ==
    <<callVars, pc, addVars, batchVars, screenVars, timeVars, dayVars,
      todoVars, wellnessFlights, fetchVars>>

\* the screen is on today, with the record of today fetched if there is one
InitWellness ==
    /\ event = Evento(NullStr, "null", NullDates)
    /\ targetDateStr = NullStr
    /\ result = FALSE
    /\ pc = "calendar"
    /\ AddIdle
    /\ BatchIdle
    /\ ScreenRestIdle
    /\ TimesIdle
    /\ DayIdle
    /\ FetchIdle
    /\ TodosIdle
    /\ selectedDate = ScreenToday
    /\ wellnessTable \in {{}, InitialWellness}
    /\ wellness = recordOf(wellnessTable, selectedDate)
    /\ wellnessError = NullStr
    /\ wellnessFlights = {}
    /\ upserts = {}
    /\ lastWrite = NoWrites

\* upsertField(fecha, field, value) up to its second request
upsertFieldLookup(fecha, field, value) ==
    /\ Cardinality(upserts) < MaxUpserts
    /\ wellnessError' = NullStr
    /\ \E ok \in BOOLEAN :
           upserts' = upserts \cup
               {[fecha |-> fecha, field |-> field, value |-> value,
                 existing |-> existingOf(wellnessTable, fecha, ok)]}
    /\ UNCHANGED <<wellnessTable, wellness, lastWrite>>
    /\ UNCHANGED besidesWellness

\* { ...row, [field]: value }
withField(row, field, value) == [row EXCEPT ![field] = value]

\* the row of the insert: the defaults, then the field
newRecord(id, fecha, field, value) ==
    withField(Wellness(id, fecha, 0, 0, 0), field, value)

\* upsertField from its second request on
upsertFieldWrite(c) ==
    /\ c \in upserts
    /\ upserts' = upserts \ {c}
    /\ c.existing = 0 => Cardinality(wellnessTable) < MaxRows
    /\ \E ok \in BOOLEAN :
           IF ok
           THEN /\ wellnessTable' =
                       IF c.existing # 0
                       THEN {IF w.id = c.existing
                             THEN withField(w, c.field, c.value)
                             ELSE w : w \in wellnessTable}
                       ELSE wellnessTable \cup
                                {newRecord(Cardinality(wellnessTable) + 1,
                                           c.fecha, c.field, c.value)}
                /\ wellness' =
                       withField(IF wellness = NoWellness
                                 THEN Wellness(0, c.fecha, 0, 0, 0)
                                 ELSE wellness, c.field, c.value)
                /\ lastWrite' = withField(lastWrite, c.field, c.value)
                /\ UNCHANGED wellnessError
           ELSE /\ wellnessError' = Message
                /\ UNCHANGED <<wellnessTable, wellness, lastWrite>>
    /\ UNCHANGED besidesWellness

NextWellness ==
    \/ \E field \in WellnessFields, value \in SliderValues :
           upsertFieldLookup(selectedDate, field, value)
    \/ \E c \in upserts : upsertFieldWrite(c)

SpecWellness == InitWellness /\ [][NextWellness]_vars

\* C25: whatever calls of upsertField were made for the day, however their
\* requests interleaved and whichever failed, the daily_wellness table holds
\* at most one record of the day, and that record carries, for each field
\* written, the value of the last write that completed.
C25_OneRecord ==
    LET ofDay == {w \in wellnessTable : w.fecha = selectedDate}
    IN  /\ Cardinality(ofDay) <= 1
        /\ \A w \in ofDay, field \in WellnessFields :
               lastWrite[field] # 0 => w[field] = lastWrite[field]
(***************************************************************************)
(* useEvents step by step.  Every function of the hook is a request and,   *)
(* later, its response; between the two, other calls start and other      *)
(* responses arrive.  The table takes a write when it answers it, and the  *)
(* rows of a fetch are those of the table when the fetch is answered.  A   *)
(* request in flight is named by its operation and, for a fetch, by the    *)
(* call that made it: the effect of the screen or the function that        *)
(* refetches after its write.                                              *)
(***************************************************************************)
MaxRequests == 3

Request(op, of) == [op |-> op, of |-> of]

Writes == {"insert", "update", "delete"}

\* the row addEvent inserts, and the title updateEvent gives to the first row
NewRow == Stored(2, NextMonday, "null", NullDates)
NewTitulo == "Dentista"

\* the table after the write of a request
rowsAfter(rows, op) ==
    CASE op = "insert" -> rows \cup {NewRow}
      [] op = "update" ->
             {IF e.id = 1 THEN [e EXCEPT !.titulo = NewTitulo] ELSE e : e \in rows}
      [] op = "delete" -> {e \in rows : e.id # 1}

\* the requests in flight once the write r is answered: await fetchEvents()
\* in the try block, after the throw of a failed write
refetchAlways(rs, r, ok) == (rs \ {r}) \cup {Request("fetch", r.op)}

refetch(rs, r, ok) ==
    IF ok THEN (rs \ {r}) \cup {Request("fetch", r.op)} ELSE rs \ {r}

besidesFetch ==
    <<callVars, pc, addVars, batchVars, created, selectedDate,
      modalSelectedDate, formVars, modalVisible, calendarModalVisible, alert,
      pressed, timer, timeVars, dayVars, todoVars, wellnessVars>>

\* the hook is mounted: loading starts true and the effect has called
\* fetchEvents
InitFetch ==
    /\ event = Evento(NullStr, "null", NullDates)
    /\ targetDateStr = NullStr
    /\ result = FALSE
    /\ pc = "calendar"
    /\ AddIdle
    /\ BatchIdle
    /\ created = <<>>
    /\ ScreenIdle
    /\ TimesIdle
    /\ DayIdle
    /\ TodosIdle
    /\ WellnessIdle
    /\ table = {Stored(1, ScreenToday, "weekly", NullDates)}
    /\ eventos = {}
    /\ error = NullStr
    /\ loading = TRUE
    /\ requests = {Request("fetch", "effect")}
    /\ lastDone = NoCall

\* fetchEvents() up to its await, called by an effect of the screen
fetchEvents ==
    /\ Cardinality(requests) < MaxRequests
    /\ Request("fetch", "effect") \notin requests
    /\ loading' = TRUE
    /\ error' = NullStr
    /\ requests' = requests \cup {Request("fetch", "effect")}
    /\ UNCHANGED <<table, eventos, lastDone>>
    /\ UNCHANGED besidesFetch

\* addEvent, updateEvent or deleteEvent up to its await
writeCall(op) ==
    /\ Cardinality(requests) < MaxRequests
    /\ Request(op, op) \notin requests
    /\ Request("fetch", op) \notin requests
    /\ error' = NullStr
    /\ requests' = requests \cup {Request(op, op)}
    /\ UNCHANGED <<table, eventos, loading, lastDone>>
    /\ UNCHANGED besidesFetch

\* the response of the insert, update or delete arrives: the call goes on to
\* fetchEvents(), or to its catch block where it ends
writeResponse(r) ==
    /\ r \in requests
    /\ r.op \in Writes
    /\ \E ok \in BOOLEAN :
           /\ requests' = refetch(requests, r, ok)
           /\ IF ok
              THEN /\ table' = rowsAfter(table, r.op)
                   /\ loading' = TRUE
                   /\ error' = NullStr
                   /\ lastDone' = [op |-> r.op, ok |-> TRUE, promise |-> "pending"]
              ELSE /\ error' = Message
                   /\ lastDone' = [op |-> r.op, ok |-> FALSE, promise |-> "resolved"]
                   /\ UNCHANGED <<table, loading>>
    /\ UNCHANGED eventos
    /\ UNCHANGED besidesFetch

\* the response of a fetch arrives; the call that made it ends
fetchResponse(r) ==
    /\ r \in requests
    /\ r.op = "fetch"
    /\ requests' = requests \ {r}
    /\ \E ok \in BOOLEAN :
           /\ IF ok
              THEN eventos' = table /\ UNCHANGED error
              ELSE error' = Message /\ UNCHANGED eventos
           /\ lastDone' = [op |-> "fetch", ok |-> ok, promise |-> "resolved"]
    /\ loading' = FALSE
    /\ UNCHANGED table
    /\ UNCHANGED besidesFetch

NextFetch ==
    \/ fetchEvents
    \/ \E op \in Writes : writeCall(op)
    \/ \E r \in requests : writeResponse(r)
    \/ \E r \in requests : fetchResponse(r)

SpecFetch == InitFetch /\ [][NextFetch]_vars

\* C28: loading is true exactly when a fetchEvents request is in flight.
C28_LoadingInFlight ==
    loading <=> (\E r \in requests : r.op = "fetch")

\* C29: when the response of an insert, update or delete is a failure, the
\* step sets error to a message, starts no fetch, leaves events as it was
\* and the promise of the call resolves; when the response of a fetch is a
\* failure, the step leaves events as it was and sets loading to false.
C29_Failures ==
    [][\A r \in requests \ requests' :
          ~lastDone'.ok =>
              IF r.op \in Writes
              THEN /\ error' # NullStr
                   /\ requests' = requests \ {r}
                   /\ eventos' = eventos
                   /\ lastDone'.promise = "resolved"
              ELSE /\ eventos' = eventos
                   /\ loading' = FALSE]_vars

\* a delete failed after the events were fetched
C29_Witness ==
    /\ lastDone = [op |-> "delete", ok |-> FALSE, promise |-> "resolved"]
    /\ error = Message
    /\ eventos = table
    /\ eventos # {}
    /\ requests = {}

====
